---- MODULE Spec2Model ----
(***************************************************************************)
(* Model of rda.py: the online-coding (prequential) MDL estimator.         *)
(*                                                                         *)
(* The script is one sequential main program.  Its position is pc, and     *)
(* each action below is one step of the script, in source order:           *)
(*   CheckArguments, LoadAndShuffle, ComputeBlockSizes, AddBaseline,       *)
(*   BuildSplits, SaveSplit, TrainModelReturns / TrainModelRaises,         *)
(*   ComputeMDL.                                                           *)
(*                                                                         *)
(* Numbers.  Block boundaries are integers and are computed exactly (see   *)
(* RoundRoot).  val_frac is held as a number of quarters (0.25, 0.5, ...), *)
(* for which the float product val_frac * len is exact.  Negative          *)
(* log-likelihoods are held in thousandths of a nat and codelengths in     *)
(* thousandths of a bit (fixed point).                                     *)
(*                                                                         *)
(* Python sequences are 0-based and TLA+ sequences 1-based: At(s, i) is    *)
(* the Python s[i].                                                        *)
(***************************************************************************)
EXTENDS Integers, Sequences, FiniteSets, TLC

\* ------------------------------------------------------------------ bounds
\* Largest dataset load_data may return.
MaxData == 4
\* Largest --num_blocks tried.
MaxBlocks == 3

\* ------------------------------------------------------------- input sets
\* --num_blocks; 0 is the value the first assertion rejects.
NumBlocksVals == 0..MaxBlocks
\* --min_block_size; 0 is rejected, MaxData + 1 exceeds every dataset.
MinBlockSizeVals == 0..(MaxData + 1)
\* --max_block_size; -1 is rejected, 0 means "all examples".
MaxBlockSizeVals == (0 - 1)..MaxData
\* --val_frac in quarters: 0 and 4 (0.0 and 1.0) are rejected.
ValFracVals == {0, 1, 2, 4}
\* --label_range; 0 is rejected.
LabelRangeVals == {0, 2, 4}
\* What train_model.main() may return (thousandths of a nat).
OracleNLLs == {300, 500}

\* The names of the splits, in the insertion order of the block_datasets dict.
Splits == <<"train", "validation", "test">>

\* split.upper() + '_FILE'
Placeholder(split) ==
    CASE split = "train" -> "TRAIN_FILE"
      [] split = "validation" -> "VALIDATION_FILE"
      [] split = "test" -> "TEST_FILE"

\* A token of the training-argument string.  A literal or a placeholder has
\* block 0; a substituted file path names its split and its send_block
\* directory (os.path.join(data_dir, 'send_block_' + str(send_block),
\* split + '.' + data_file_ext)).
Lit(s) == [tok |-> s, block |-> 0]
FilePath(send, split) == [tok |-> split, block |-> send]

RECURSIVE TemplateOf(_, _)
\* The --training_args string holding exactly the placeholders of S.
TemplateOf(S, i) ==
    IF i > Len(Splits) THEN <<>>
    ELSE (IF Placeholder(Splits[i]) \in S THEN <<Lit(Placeholder(Splits[i]))>> ELSE <<>>)
         \o TemplateOf(S, i + 1)

TrainingArgsVals ==
    { <<Lit("--do_train")>> \o TemplateOf(S, 1) :
        S \in SUBSET {"TRAIN_FILE", "VALIDATION_FILE", "TEST_FILE"} }

\* ---------------------------------------------------------------- helpers
\* Python s[i] for 0 <= i < len(s).
At(s, i) == s[i + 1]

Min(a, b) == IF a < b THEN a ELSE b

\* Python s[a:b] for a, b >= 0: indices past the end are clamped, and an
\* empty range gives the empty list.
Slice(s, a, b) ==
    LET lo == Min(a, Len(s))
        hi == Min(b, Len(s))
    IN  IF hi <= lo THEN <<>> ELSE SubSeq(s, lo + 1, hi)

\* Python s[a:].
SliceFrom(s, a) == Slice(s, a, Len(s))

Range(s) == { s[i] : i \in DOMAIN s }

RECURSIVE Pow(_, _)
Pow(b, e) == IF e = 0 THEN 1 ELSE b * Pow(b, e - 1)

\* The integer nearest to the d-th root of P (d >= 1, P >= 1):
\* k - 1/2 <= P^(1/d) < k + 1/2  iff  (2k-1)^d <= 2^d * P < (2k+1)^d.
\* The root is never exactly half way between two integers.
RoundRoot(P, d) ==
    CHOOSE k \in 0..(P + 1) :
        /\ (k = 0 \/ Pow(2 * k - 1, d) <= Pow(2, d) * P)
        /\ Pow(2, d) * P < Pow(2 * k + 1, d)

\* np.round(np.logspace(np.log10(lo), np.log10(hi), num)).astype(int):
\* num points equally spaced in log space from lo to hi, point i (0-based)
\* being lo^((num-1-i)/(num-1)) * hi^(i/(num-1)); with num = 1 the only
\* point is the start, lo.
LogspaceRound(lo, hi, num) ==
    IF num = 1 THEN <<lo>>
    ELSE [i \in 1..num |->
            RoundRoot(Pow(lo, num - i) * Pow(hi, i - 1), num - 1)]

\* Python 3 round() of the fraction num/den (den > 0, num >= 0): to the
\* nearest integer, a tie going to the even one.
RoundHalfEven(num, den) ==
    LET q == num \div den
        r == num % den
    IN  IF 2 * r < den THEN q
        ELSE IF 2 * r > den THEN q + 1
        ELSE IF q % 2 = 0 THEN q ELSE q + 1

\* int(round(args.val_frac * len(train_val_dataset))), val_frac in quarters.
ValSize(val_frac, n) == RoundHalfEven(val_frac * n, 4)

\* np.log(2), in thousandths.
Ln2Milli == 693

\* -np.log(1. / float(label_range)) = ln(label_range), in thousandths of a nat.
UniformPriorNLL(label_range) ==
    CASE label_range = 2 -> Ln2Milli
      [] label_range = 4 -> 2 * Ln2Milli

\* nll / np.log(2): thousandths of a nat to thousandths of a bit.
NatsToBits(nll) == (nll * 1000) \div Ln2Milli

RECURSIVE SumProductFrom(_, _, _)
SumProductFrom(a, b, i) ==
    IF i > Len(a) THEN 0 ELSE a[i] * b[i] + SumProductFrom(a, b, i + 1)

\* A faulty aggregation that leaves the first block out.
SumProductSkipFirst(a, b) == SumProductFrom(a, b, 2)

\* np.sum(a * b) for two arrays of the same length.
SumProduct(a, b) == SumProductFrom(a, b, 1)

\* A faulty substitution that leaves the template as it is.
ReplaceNothing(targs, placeholder, path) == targs

\* str.replace: every occurrence of the placeholder becomes the path.
Replace(targs, placeholder, path) ==
    [i \in DOMAIN targs |-> IF targs[i] = Lit(placeholder) THEN path ELSE targs[i]]

\* (placeholder in training_args)
Contains(targs, placeholder) == \E i \in DOMAIN targs : targs[i] = Lit(placeholder)

Reverse(s) == [i \in DOMAIN s |-> s[Len(s) + 1 - i]]
RotateLeft(s) == IF Len(s) = 0 THEN s ELSE SubSeq(s, 2, Len(s)) \o <<s[1]>>

\* rng.shuffle(s): some permutation of s, here one of three (the order kept,
\* reversed, or rotated by one).
ShuffleChoices(s) == {s, Reverse(s), RotateLeft(s)}

\* ------------------------------------------------------------------ state
VARIABLES
    args,                \* the parsed command line
    pc,                  \* position of the script
    error,               \* "" or the message of the exception that ended the run
    dataset,             \* the dataset, shuffled once
    canonical,           \* history: the order the first shuffle produced
    block_start_idxs,    \* block boundaries
    block_sizes,         \* differences of consecutive boundaries
    nlls,                \* per-block negative log-likelihoods
    send_block,          \* loop variable of the split loop
    block_datasets,      \* train / validation / test of the current block
    split_i,             \* position in Splits of the inner loop
    block_training_args, \* the argument string being instantiated
    files,               \* files written by save_data
    oracle_calls,        \* history: the calls of train_model.main()
    codelengths,         \* per-block codelengths in bits
    mdl,                 \* the MDL
    reported             \* the codelengths and the MDL have been printed

vars == <<args, pc, error, dataset, canonical, block_start_idxs, block_sizes, nlls,
          send_block, block_datasets, split_i, block_training_args, files,
          oracle_calls, codelengths, mdl, reported>>

NoDatasets == [train |-> <<>>, validation |-> <<>>, test |-> <<>>]

Init ==
    /\ args \in [num_blocks : NumBlocksVals,
                 min_block_size : MinBlockSizeVals,
                 max_block_size : MaxBlockSizeVals,
                 val_frac : ValFracVals,
                 label_range : LabelRangeVals,
                 training_args : TrainingArgsVals]
    /\ pc = "check"
    /\ error = ""
    /\ dataset = <<>>
    /\ canonical = <<>>
    /\ block_start_idxs = <<>>
    /\ block_sizes = <<>>
    /\ nlls = <<>>
    /\ send_block = 0
    /\ block_datasets = NoDatasets
    /\ split_i = 0
    /\ block_training_args = <<>>
    /\ files = {}
    /\ oracle_calls = <<>>
    /\ codelengths = <<>>
    /\ mdl = 0
    /\ reported = FALSE

\* The message of the first assertion of "Check arguments" that fails, "" if none.
CheckMessage(a) ==
    IF ~(a.num_blocks >= 1) THEN "--num_blocks must be >= 1"
    ELSE IF ~(a.min_block_size >= 1) THEN "--min_block_size must be >= 1"
    ELSE IF ~(a.max_block_size >= 0) THEN "--max_block_size must be >= 0"
    ELSE IF ~(0 < a.val_frac /\ a.val_frac < 4) THEN "--val_frac must be > 0 and < 1"
    ELSE IF ~(a.label_range > 0) THEN "--label_range must be > 0"
    ELSE ""

\* Lines 48-53.
CheckArguments ==
    /\ pc = "check"
    /\ error' = CheckMessage(args)
    /\ pc' = IF error' = "" THEN "load" ELSE "aborted"
    /\ UNCHANGED <<args, dataset, canonical, block_start_idxs, block_sizes, nlls, send_block,
                   block_datasets, split_i, block_training_args, files,
                   oracle_calls, codelengths, mdl, reported>>

\* Lines 55-58: the instances are 1..n, shuffled once.
LoadAndShuffle ==
    /\ pc = "load"
    /\ \E n \in 1..MaxData :
         \E d \in ShuffleChoices([i \in 1..n |-> i]) :
            dataset' = d /\ canonical' = d
    /\ pc' = "blocks"
    /\ UNCHANGED <<args, error, block_start_idxs, block_sizes, nlls, send_block,
                   block_datasets, split_i, block_training_args, files,
                   oracle_calls, codelengths, mdl, reported>>

\* Line 61.
MaxNumTrainSamples(a, n) ==
    IF a.max_block_size = 0 THEN n ELSE Min(a.max_block_size, n)

\* Lines 62-64.
BlockStartIdxs(a, n) ==
    <<0>> \o LogspaceRound(a.min_block_size, MaxNumTrainSamples(a, n), a.num_blocks)

\* Line 65: idxs[1:] - idxs[:-1].
Diffs(idxs) == [i \in 1..(Len(idxs) - 1) |-> idxs[i + 1] - idxs[i]]

\* Lines 60-65.
ComputeBlockSizes ==
    /\ pc = "blocks"
    /\ block_start_idxs' = BlockStartIdxs(args, Len(dataset))
    /\ block_sizes' = Diffs(block_start_idxs')
    /\ pc' = "baseline"
    /\ UNCHANGED <<args, error, dataset, canonical, nlls, send_block, block_datasets, split_i,
                   block_training_args, files, oracle_calls, codelengths, mdl,
                   reported>>

\* Lines 67-70, and the entry of the loop of line 73 (range(1, num_blocks)).
AddBaseline ==
    /\ pc = "baseline"
    /\ nlls' = <<UniformPriorNLL(args.label_range)>>
    /\ send_block' = 1
    /\ pc' = "loop"
    /\ UNCHANGED <<args, error, dataset, canonical, block_start_idxs, block_sizes,
                   block_datasets, split_i, block_training_args, files,
                   oracle_calls, codelengths, mdl, reported>>

\* Lines 73-86: the splits of one block.  The slice is a copy, so the shuffle
\* of the prefix leaves dataset alone.
BuildSplits ==
    /\ pc = "loop"
    /\ send_block < args.num_blocks
    /\ \E train_val_dataset \in
            ShuffleChoices(Slice(dataset, 0, At(block_start_idxs, send_block))) :
         LET val_size == ValSize(args.val_frac, Len(train_val_dataset))
         IN  block_datasets' =
               [train |-> SliceFrom(train_val_dataset, val_size),
                validation |-> Slice(train_val_dataset, 0, val_size),
                test |-> Slice(dataset, At(block_start_idxs, send_block),
                               At(block_start_idxs, send_block + 1))]
    /\ block_training_args' = args.training_args
    /\ split_i' = 1
    /\ pc' = "save"
    /\ UNCHANGED <<args, error, dataset, canonical, block_start_idxs, block_sizes, nlls,
                   send_block, files, oracle_calls, codelengths, mdl, reported>>

\* Lines 87-92, one iteration: the file is written, then the placeholder is
\* looked for in the template, then replaced.
SaveSplit ==
    /\ pc = "save"
    /\ LET split == Splits[split_i]
           path == FilePath(send_block, split)
       IN  /\ files' = files \cup {[path |-> path, examples |-> block_datasets[split]]}
           /\ IF Contains(args.training_args, Placeholder(split))
              THEN /\ block_training_args' =
                         Replace(block_training_args, Placeholder(split), path)
                   /\ error' = error
                   /\ IF split_i < Len(Splits)
                      THEN split_i' = split_i + 1 /\ pc' = "save"
                      ELSE split_i' = split_i /\ pc' = "train"
              ELSE /\ error' = "Expected " \o Placeholder(split) \o " in args.training_args"
                   /\ pc' = "aborted"
                   /\ UNCHANGED <<block_training_args, split_i>>
    /\ UNCHANGED <<args, dataset, canonical, block_start_idxs, block_sizes, nlls, send_block,
                   block_datasets, oracle_calls, codelengths, mdl, reported>>

\* The record of one call of train_model.main(): the block sent (send_block
\* is 0-based, blocks are numbered from 1), its command line, the files on
\* disk at the call, the size of its test split, and how it ended.
Call(outcome) ==
    [block |-> send_block + 1,
     argv |-> block_training_args,
     on_disk |-> { f.path : f \in files },
     test_size |-> Len(block_datasets.test),
     outcome |-> outcome]

\* Lines 94-96, the call returning a test NLL.
TrainModelReturns ==
    /\ pc = "train"
    /\ \E test_nll \in OracleNLLs :
         /\ nlls' = Append(nlls, test_nll)
         /\ oracle_calls' = Append(oracle_calls, Call(test_nll))
    /\ send_block' = send_block + 1
    /\ pc' = "loop"
    /\ UNCHANGED <<args, error, dataset, canonical, block_start_idxs, block_sizes,
                   block_datasets, split_i, block_training_args, files,
                   codelengths, mdl, reported>>

\* A faulty call site that swallows the exception and carries on with an NLL of 0.
TrainModelSwallows ==
    /\ pc = "train"
    /\ nlls' = Append(nlls, 0)
    /\ oracle_calls' = Append(oracle_calls, Call(0 - 1))
    /\ send_block' = send_block + 1
    /\ pc' = "loop"
    /\ UNCHANGED <<args, error, dataset, canonical, block_start_idxs, block_sizes,
                   block_datasets, split_i, block_training_args, files,
                   codelengths, mdl, reported>>

\* Line 95, the call raising: nothing catches the exception, the script ends.
\* The outcome of a failed call is recorded as -1.
TrainModelRaises ==
    /\ pc = "train"
    /\ oracle_calls' = Append(oracle_calls, Call(0 - 1))
    /\ error' = "OracleFailure"
    /\ pc' = "aborted"
    /\ UNCHANGED <<args, dataset, canonical, block_start_idxs, block_sizes, nlls, send_block,
                   block_datasets, split_i, block_training_args, files,
                   codelengths, mdl, reported>>

\* Lines 98-102, reached when range(1, num_blocks) is exhausted.
ComputeMDL ==
    /\ pc = "loop"
    /\ ~(send_block < args.num_blocks)
    /\ codelengths' = [i \in DOMAIN nlls |-> NatsToBits(nlls[i])]
    /\ mdl' = SumProduct(block_sizes, codelengths')
    /\ reported' = TRUE
    /\ pc' = "done"
    /\ UNCHANGED <<args, error, dataset, canonical, block_start_idxs, block_sizes, nlls,
                   send_block, block_datasets, split_i, block_training_args,
                   files, oracle_calls>>

Next ==
    \/ CheckArguments
    \/ LoadAndShuffle
    \/ ComputeBlockSizes
    \/ AddBaseline
    \/ BuildSplits
    \/ SaveSplit
    \/ TrainModelReturns
    \/ TrainModelRaises
    \/ ComputeMDL

Spec == Init /\ [][Next]_vars

\* ----------------------------------------------------------------- claims
\* The dataset has been loaded, so its length is known.
Loaded == dataset # <<>>

\* effective_size: line 61.
EffectiveSize == MaxNumTrainSamples(args, Len(dataset))

\* The configuration the design calls valid.
ValidConfig ==
    /\ args.num_blocks >= 1
    /\ args.min_block_size >= 1
    /\ args.max_block_size >= 0
    /\ Loaded
    /\ args.min_block_size <= EffectiveSize

\* The block scheduler has run.
Scheduled == block_start_idxs # <<>>

RECURSIVE SumSeq(_, _)
SumSeq(s, i) == IF i > Len(s) THEN 0 ELSE s[i] + SumSeq(s, i + 1)

\* The splits of the current block are built.
SplitsBuilt == pc \in {"save", "train"}

\* C1: for every valid configuration the boundary sequence has exactly
\* num_blocks + 1 entries, starts at 0 and ends at effective_size, so the
\* block sizes sum to effective_size; num_blocks = 1 included.
C1_BoundariesSpanEffectiveSize ==
    (Scheduled /\ ValidConfig) =>
        /\ Len(block_start_idxs) = args.num_blocks + 1
        /\ block_start_idxs[1] = 0
        /\ block_start_idxs[Len(block_start_idxs)] = EffectiveSize
        /\ SumSeq(block_sizes, 1) = EffectiveSize

\* C2: for every valid configuration the boundaries are strictly increasing
\* after rounding, so every block size is at least 1.
C2_BoundariesStrictlyIncreasing ==
    (Scheduled /\ ValidConfig) =>
        /\ \A i \in 1..(Len(block_start_idxs) - 1) :
              block_start_idxs[i] < block_start_idxs[i + 1]
        /\ \A i \in DOMAIN block_sizes : block_sizes[i] >= 1

\* C3: for every block b >= 2 the train and validation subsets share no
\* instance, together hold exactly the instances at canonical indices
\* [0, boundaries[b-1]) with none dropped or duplicated, so that
\* len(train) + len(validation) = boundaries[b-1], and
\* len(validation) = round(val_frac * boundaries[b-1]).
C3_TrainValidationPartitionPrefix ==
    SplitsBuilt =>
        LET boundary == At(block_start_idxs, send_block)
            train == block_datasets.train
            validation == block_datasets.validation
        IN  /\ Range(train) \cap Range(validation) = {}
            /\ Range(train) \cup Range(validation) =
                 { canonical[i] : i \in 1..Min(boundary, Len(canonical)) }
            /\ Cardinality(Range(train)) = Len(train)
            /\ Cardinality(Range(validation)) = Len(validation)
            /\ Len(train) + Len(validation) = boundary
            /\ Len(validation) = RoundHalfEven(args.val_frac * boundary, 4)

\* C4: for every block b >= 2 the test subset is exactly the slice
\* [boundaries[b-1], boundaries[b]) of the canonical order, in that order,
\* with exactly block_sizes[b-1] instances, and the re-shuffles of the
\* prefixes leave the canonical order of the dataset unchanged.
C4_TestIsCanonicalSlice ==
    SplitsBuilt =>
        LET lo == At(block_start_idxs, send_block)
            test == block_datasets.test
        IN  /\ dataset = canonical
            /\ Len(test) = At(block_sizes, send_block)
            /\ \A i \in DOMAIN test :
                  lo + i <= Len(canonical) /\ test[i] = canonical[lo + i]

\* C5: on a run that completes, the NLL list has one entry per block, the
\* first being the uniform-prior baseline ln(label_range) and entry b >= 2
\* the value the oracle returned for block b, each codelength is its NLL
\* divided by ln 2, and the MDL is the index-aligned sum of
\* block_size[i] * codelength[i].
C5_MDLIsIndexAlignedSum ==
    (pc = "done") =>
        /\ reported
        /\ Len(nlls) = args.num_blocks
        /\ Len(block_sizes) = args.num_blocks
        /\ Len(codelengths) = args.num_blocks
        /\ nlls[1] = (IF args.label_range = 2 THEN 693 ELSE 1386)
        /\ \A b \in 2..args.num_blocks :
              /\ oracle_calls[b - 1].block = b
              /\ nlls[b] = oracle_calls[b - 1].outcome
        /\ \A i \in 1..args.num_blocks :
              /\ codelengths[i] * 693 <= nlls[i] * 1000
              /\ nlls[i] * 1000 < (codelengths[i] + 1) * 693
        /\ mdl = SumSeq([i \in 1..args.num_blocks |->
                            block_sizes[i] * codelengths[i]], 1)

\* C5's case: a completed run of three blocks whose two oracle results differ.
C5_Witness ==
    /\ pc = "done"
    /\ args.num_blocks = 3
    /\ nlls[2] # nlls[3]
    /\ \A i \in DOMAIN block_sizes : block_sizes[i] >= 1
    /\ mdl > 0

\* A configuration the design says is rejected.
RejectedConfig ==
    \/ args.num_blocks < 1
    \/ args.min_block_size < 1
    \/ args.max_block_size < 0
    \/ (Loaded /\ args.min_block_size > EffectiveSize)

\* C6: a configuration with num_blocks < 1, min_block_size < 1,
\* max_block_size < 0 or min_block_size > effective_size aborts before any
\* split is built, any file is written or the oracle is called, and
\* reports no MDL.
C6_InvalidConfigRejected ==
    RejectedConfig =>
        /\ block_datasets = NoDatasets
        /\ files = {}
        /\ oracle_calls = <<>>
        /\ ~reported
        /\ pc # "done"

\* The template lacks one of the three placeholders.
MissingPlaceholder ==
    \E i \in DOMAIN Splits : ~Contains(args.training_args, Placeholder(Splits[i]))

\* C7: a template that lacks a required placeholder aborts the run before
\* any split file is written and before any model is trained, for every
\* num_blocks >= 1.
C7_MissingPlaceholderDetectedEagerly ==
    MissingPlaceholder =>
        /\ files = {}
        /\ oracle_calls = <<>>
        /\ pc # "done"

\* Rounding made two consecutive boundaries equal or decreasing.
Collapsed ==
    \E i \in 1..(Len(block_start_idxs) - 1) :
        block_start_idxs[i] >= block_start_idxs[i + 1]

\* C8: collapsed boundaries are detected before any split is built or any
\* model trained, and the oracle is never invoked for a block whose test
\* subset is empty.
C8_NoZeroSizeBlockTrained ==
    /\ \A i \in DOMAIN oracle_calls : oracle_calls[i].test_size > 0
    /\ Collapsed =>
          /\ block_datasets = NoDatasets
          /\ files = {}
          /\ oracle_calls = <<>>

\* C9: if the oracle fails for a block, the failure is not retried and
\* ends the run at that block: the failed call is the last one, no later
\* block is written or trained, no NLL stands for the failed block, and no
\* codelength array or MDL is reported.
C9_OracleFailureAborts ==
    \A i \in DOMAIN oracle_calls :
        (oracle_calls[i].outcome < 0) =>
            /\ i = Len(oracle_calls)
            /\ pc = "aborted"
            /\ error = "OracleFailure"
            /\ \A j \in 1..(i - 1) : oracle_calls[j].block < oracle_calls[i].block
            /\ send_block + 1 = oracle_calls[i].block
            /\ \A f \in files : f.path.block + 1 <= oracle_calls[i].block
            /\ Len(nlls) = i
            /\ codelengths = <<>>
            /\ mdl = 0
            /\ ~reported

\* C9's case: the second oracle call (block 3) failed after the first returned.
C9_Witness ==
    /\ Len(oracle_calls) = 2
    /\ oracle_calls[1].outcome >= 0
    /\ oracle_calls[2].outcome < 0
    /\ pc = "aborted"
    /\ args.num_blocks = 3

\* C10: in a run that completes the oracle is invoked exactly
\* num_blocks - 1 times, once per block 2..num_blocks in increasing order,
\* each time after the three files of the block were written and
\* substituted into the template; with num_blocks = 1 no file is written
\* and the oracle is never invoked.
C10_OracleOncePerBlockInOrder ==
    (pc = "done") =>
        /\ Len(oracle_calls) = args.num_blocks - 1
        /\ \A i \in DOMAIN oracle_calls :
              LET call == oracle_calls[i]
              IN  /\ call.block = i + 1
                  /\ \A k \in DOMAIN Splits :
                        /\ FilePath(i, Splits[k]) \in call.on_disk
                        /\ \E t \in DOMAIN call.argv :
                              call.argv[t] = FilePath(i, Splits[k])
                        /\ ~Contains(call.argv, Placeholder(Splits[k]))
                  /\ \A p \in call.on_disk : p.block <= i
        /\ { f.path : f \in files } =
              { FilePath(i, Splits[k]) :
                  i \in 1..(args.num_blocks - 1), k \in DOMAIN Splits }
        /\ (args.num_blocks = 1 => files = {} /\ oracle_calls = <<>>)

\* C10's case: a completed run of three blocks, so two oracle calls.
C10_Witness ==
    /\ pc = "done"
    /\ args.num_blocks = 3
    /\ Len(oracle_calls) = 2
    /\ Cardinality(files) = 6

====
